---- MODULE Spec2Model ----
(***************************************************************************)
(* State-machine model of frontend/app.js: the browser front end of the   *)
(* music genre classifier.  Every event listener, timer callback and      *)
(* promise continuation of the script is one action; the module-level     *)
(* `let` variables and the DOM properties the script writes are the       *)
(* state.  The browser (user events, permission prompt, network, timers,  *)
(* animation frames) is the environment and is nondeterministic.          *)
(***************************************************************************)
EXTENDS Integers, Sequences, FiniteSets, TLC

(* ------------------------------ bounds -------------------------------- *)
\* user events (clicks, picks, drops, slider moves) in one behaviour
MaxEvents == 4
\* startRecording calls in one behaviour
MaxSessions == 2
\* /health requests in flight at once
MaxPolls == 2
\* POST /predict requests in flight at once
MaxUploads == 2
\* pending toast timeouts at once
MaxTimers == 2
\* clock ticks that make up the toast's 6000 ms delay
ToastTicks == 2
\* seconds the recording timer counts
MaxSeconds == 1

(* ------------------------------ values -------------------------------- *)
\* text or style a DOM node has from the page markup, before the script writes it
Markup == "(markup)"
\* JavaScript null / undefined
Null == 0
Undefined == "undefined"

Sessions == 1..MaxSessions

\* the glyphs, by name
GENRE_EMOJIS ==
    [blues |-> "saxophone", classical |-> "violin", country |-> "cowboy hat face",
     disco |-> "mirror ball", hiphop |-> "microphone", jazz |-> "musical keyboard",
     metal |-> "sign of the horns", pop |-> "musical note", reggae |-> "palm tree",
     rock |-> "guitar"]
DefaultEmoji == "musical note"
\* GENRE_EMOJIS[genre] || default
Emoji(genre) == IF genre \in DOMAIN GENRE_EMOJIS THEN GENRE_EMOJIS[genre] ELSE DefaultEmoji

\* files the user can pick or drop, with their name and size properties
Files == {1, 2}
FileName(file) == IF file = 1 THEN "a.wav" ELSE "b.mp3"
FileSize(file) == IF file = 1 THEN 512 ELSE 1536
Durations == {5, 10}

\* formatBytes: <<digits before the point, tenths or -1 when none, unit>>;
\* toFixed(1) rounds the exact quotient to the nearest tenth, ties upward
formatBytes(bytes) ==
    IF bytes < 1024 THEN <<bytes, -1, "B">>
    ELSE IF bytes < 1048576
         THEN LET t == (bytes * 20 + 1024) \div 2048 IN <<t \div 10, t % 10, "KB">>
         ELSE LET t == (bytes * 20 + 1048576) \div 2097152 IN <<t \div 10, t % 10, "MB">>

\* a confidence is a number of thousandths: One is the confidence 1.0
One == 1000
\* Math.PI in thousandths: lengths of the ring are in thousandths of a user unit
Pi == 3142
\* the radius of the confidence ring
RingRadius == 52
\* a bar width is a number of thousandths of a percent: WidthUnits make one percent
WidthUnits == 1000
\* top_genres lists: ranked by descending confidence, out of order, and without any
\* confidence above zero
Ranked ==
    <<[genre |-> "rock", confidence |-> 600], [genre |-> "pop", confidence |-> 300],
      [genre |-> "jazz", confidence |-> 100]>>
Unranked == <<[genre |-> "pop", confidence |-> 300], [genre |-> "rock", confidence |-> 600]>>
Unscored == <<[genre |-> "rock", confidence |-> 0], [genre |-> "polka", confidence |-> 0]>>

\* response bodies: text that res.json() rejects, a Prediction Result, an {error} object;
\* keys are the properties the parsed object has
NoBody(e) ==
    [json |-> TRUE, genre |-> Undefined, error |-> e, confidence |-> 0, top_genres |-> <<>>,
     keys |-> IF e = Undefined THEN {} ELSE {"error"}]
InvalidJson == [NoBody(Undefined) EXCEPT !.json = FALSE]
Result(genre, confidence, keys, top_genres) ==
    [json |-> TRUE, genre |-> genre, error |-> Undefined, confidence |-> confidence,
     top_genres |-> top_genres, keys |-> {"genre", "confidence"} \cup keys]
\* the results the server sends to every panel: one with its ranked list and a genre
\* of the table, one without a list and with a genre that is not in the table
PredictionBodies ==
    {Result("rock", 600, {"top_genres"}, Ranked), Result("polka", 870, {}, <<>>)}
\* more results: the ends of the confidence range, an empty list, a list out of
\* order, a list of zero confidences
ResultBodies ==
    PredictionBodies
    \cup {Result("jazz", 0, {"top_genres"}, <<>>), Result("pop", 1000, {"top_genres"}, Unranked),
          Result("rock", 4, {"top_genres"}, Unscored)}
ErrorBodies == {NoBody(e) : e \in {Undefined, "model not loaded"}}
\* btnSystem's idle label
StartListening == <<"Start Listening", Null, "">>

\* what a fetch can come to: a rejection, or a response with a status and a body
NetworkError == [fetch |-> "rejects", ok |-> FALSE, body |-> InvalidJson]
Resolved(bodies) ==
    {[fetch |-> "resolves", ok |-> TRUE, body |-> b] : b \in bodies \cup {InvalidJson}}
    \cup {[fetch |-> "resolves", ok |-> FALSE, body |-> b] : b \in ErrorBodies \cup {InvalidJson}}
Responses == {NetworkError} \cup Resolved(PredictionBodies)
\* the outcomes of a request whose result the results area is studied for
ResultResponses == {NetworkError} \cup Resolved(ResultBodies)

\* res.json() resolves
JsonOk(resp) == resp.fetch = "resolves" /\ resp.body.json

VARIABLES
    \* user events handled so far
    events,
    \* the mode whose tab and input panel carry the class active
    activeMode,
    \* health monitor
    statusOnline, statusText, healthPending, lastPoll,
    \* file upload
    selectedFile, fileInputFile, fileNameText, fileSizeText,
    fileInfoDisplay, dropZoneDisplay, uploadsPending,
    \* btnPredict and btnSystem: loading class and disabled property
    button,
    \* system audio
    durationSlider, durationValueText, btnSystemText, systemPending,
    \* results
    resultsDisplay, genreEmojiText, genreNameText, confidenceText, ringOffset, ringGradient,
    \* the rows of chartBars, the pending bar-width callbacks in registration order,
    \* and the data of the last showResults call
    chartRows, barFrames, shown,
    \* error toast
    errorMessageText, errorToastDisplay, timers,
    \* the prediction request that completed last and what its handler called
    last,
    \* microphone recording: module state
    mediaRecorder, audioChunks, recordingTimer, recordSeconds,
    audioStream, audioContext, analyser, animFrameId,
    \* microphone recording: DOM
    btnRecordRecording, recordLabelText, recordTimerDisplay, timerText, waveCanvasDisplay,
    \* microphone recording: browser objects, one of each per startRecording call
    nextSession, startState, trackState, recorderState, contextState, onstop,
    trackStopCalls, contextCloseCalls, stoppedBy, closedBy,
    \* running setInterval timers and requestAnimationFrame callbacks in registration order
    intervals, frames

healthVars == <<statusOnline, statusText, healthPending, lastPoll>>
fileVars == <<selectedFile, fileInputFile, fileNameText, fileSizeText,
              fileInfoDisplay, dropZoneDisplay>>
sysVars == <<durationSlider, durationValueText>>
resultVars == <<resultsDisplay, genreEmojiText, genreNameText, confidenceText, ringOffset,
                ringGradient, chartRows, barFrames, shown>>
toastVars == <<errorMessageText, errorToastDisplay, timers>>
recGlobals == <<mediaRecorder, audioChunks, recordingTimer, recordSeconds,
                audioStream, audioContext, analyser, animFrameId>>
recDom == <<btnRecordRecording, recordLabelText, recordTimerDisplay, timerText,
            waveCanvasDisplay>>
recObjects == <<nextSession, startState, trackState, recorderState, contextState, onstop,
                trackStopCalls, contextCloseCalls, stoppedBy, closedBy, intervals, frames>>
recVars == <<recGlobals, recDom, recObjects>>
vars == <<events, activeMode, healthVars, fileVars, uploadsPending, button, sysVars, btnSystemText,
          systemPending, resultVars, toastVars, last, recVars>>

NoRequest == [req |-> "none", resp |-> NetworkError, called |-> "none", msg |-> ""]

(* ------------------------------- Init --------------------------------- *)
\* the state once the script has run: listeners attached, the first
\* checkHealth() call waiting for its response
Init ==
    /\ events = 0
    /\ activeMode = Markup
    /\ statusOnline = FALSE
    /\ statusText = Markup
    /\ healthPending = 1
    /\ lastPoll = "none"
    /\ selectedFile = Null
    /\ fileInputFile = Null
    /\ fileNameText = Markup
    /\ fileSizeText = <<0, -1, Markup>>
    /\ fileInfoDisplay = Markup
    /\ dropZoneDisplay = Markup
    /\ uploadsPending = 0
    /\ button = [btnPredict |-> [loading |-> FALSE, disabled |-> TRUE],
                 btnSystem |-> [loading |-> FALSE, disabled |-> FALSE]]
    /\ durationSlider \in Durations
    /\ durationValueText = <<Null, Markup>>
    /\ btnSystemText = <<Markup, Null, "">>
    /\ systemPending = 0
    /\ resultsDisplay = Markup
    /\ genreEmojiText = Markup
    /\ genreNameText = Markup
    /\ confidenceText = <<>>
    /\ ringOffset = <<>>
    /\ ringGradient = FALSE
    /\ chartRows = <<>>
    /\ barFrames = <<>>
    /\ shown = InvalidJson
    /\ errorMessageText = Markup
    /\ errorToastDisplay = Markup
    /\ timers = <<>>
    /\ last = NoRequest
    /\ mediaRecorder = Null
    /\ audioChunks = <<>>
    /\ recordingTimer = Null
    /\ recordSeconds = 0
    /\ audioStream = Null
    /\ audioContext = Null
    /\ analyser = Null
    /\ animFrameId = Null
    /\ btnRecordRecording = FALSE
    /\ recordLabelText = Markup
    /\ recordTimerDisplay = Markup
    /\ timerText = <<-1, -1>>
    /\ waveCanvasDisplay = Markup
    /\ nextSession = 0
    /\ startState = [s \in Sessions |-> "none"]
    /\ trackState = [s \in Sessions |-> "none"]
    /\ recorderState = [s \in Sessions |-> "none"]
    /\ contextState = [s \in Sessions |-> "none"]
    /\ onstop = [s \in Sessions |-> "idle"]
    /\ trackStopCalls = [s \in Sessions |-> 0]
    /\ contextCloseCalls = [s \in Sessions |-> 0]
    /\ stoppedBy = [s \in Sessions |-> Null]
    /\ closedBy = [s \in Sessions |-> Null]
    /\ intervals = {}
    /\ frames = <<>>

(* --------------------------- shared functions -------------------------- *)
\* Math.round(data.confidence * 100); the confidences of the model are not halfway
\* between two integers
pct(data) == (data.confidence + 5) \div 10
circumference == 2 * Pi * RingRadius
\* an offset that grows with the confidence
offsetOfConfidence(data) == (circumference * data.confidence) \div One
offset(data) == (circumference * (One - data.confidence)) \div One
\* data.top_genres || []
topGenres(data) == IF "top_genres" \in data.keys THEN data.top_genres ELSE <<>>
\* a scale that is the confidence 1.0 for every list
maxConfOne(data) == One
maxConf(data) == IF Len(topGenres(data)) > 0 THEN topGenres(data)[1].confidence ELSE One
barPct(item, data) ==
    IF maxConf(data) > 0 THEN (item.confidence * 100 * WidthUnits) \div maxConf(data) ELSE 0
\* (item.confidence * 100).toFixed(1): <<digits before the point, tenths>>
displayPct(item) == <<item.confidence \div 10, item.confidence % 10>>
\* the row built for entry i: label, percent, the class top, and a bar of width 0%
ChartRow(item, i) ==
    [label |-> <<Emoji(item.genre), item.genre>>, percent |-> displayPct(item),
     top |-> (i = 1), width |-> 0]

\* the bar-width callbacks of one showResults call, applied to the rows they captured:
\* rows that chartBars no longer holds are not displayed
BarCallbacksByIndex(rows, cb) ==
    [i \in 1..Len(rows) |->
        IF i <= Len(cb.widths) THEN [rows[i] EXCEPT !.width = cb.widths[i]] ELSE rows[i]]
BarCallbacks(rows, cb) ==
    IF cb.attached THEN [i \in 1..Len(rows) |-> [rows[i] EXCEPT !.width = cb.widths[i]]]
    ELSE rows

\* showResults(data): reveal the results area; replace glyph, label, percentage and
\* ring offset; inject the gradient once; empty chartBars and append one row per
\* entry, each with a callback that sets its bar's width two animation frames later
showResults(data) ==
    /\ resultsDisplay' = "block"
    /\ genreEmojiText' = Emoji(data.genre)
    /\ genreNameText' = data.genre
    /\ confidenceText' = <<pct(data)>>
    /\ ringOffset' = <<offset(data)>>
    /\ ringGradient' = TRUE
    /\ chartRows' = [i \in 1..Len(topGenres(data)) |-> ChartRow(topGenres(data)[i], i)]
    /\ barFrames' =
           [j \in 1..Len(barFrames) |-> [barFrames[j] EXCEPT !.attached = FALSE]]
           \o (IF Len(topGenres(data)) > 0
               THEN <<[stage |-> 1, attached |-> TRUE,
                       widths |-> [i \in 1..Len(topGenres(data)) |->
                                      barPct(topGenres(data)[i], data)]]>>
               ELSE <<>>)
    /\ shown' = data

\* showError(msg): replace the message, show the toast, start a 6000 ms timeout
showError(msg) ==
    /\ Len(timers) < MaxTimers
    /\ errorMessageText' = msg
    /\ errorToastDisplay' = "flex"
    /\ timers' = Append(timers, ToastTicks)

\* setLoading that adds and removes the loading class but leaves the button enabled
setLoadingKeepsEnabled(btn, loading) ==
    button' = [button EXCEPT ![btn] = [loading |-> loading, disabled |-> FALSE]]

\* setLoading(btn, loading)
setLoading(btn, loading) ==
    button' = [button EXCEPT ![btn] = [loading |-> loading, disabled |-> loading]]

\* a handler that takes every response that parses for a success
ResOkAlways(resp) == TRUE

\* res.ok
ResOk(resp) == resp.ok

\* data.error || fallback
ErrorOr(data, fallback) == IF data.error # Undefined THEN data.error ELSE fallback

Completed(req, resp, fn, msg) == [req |-> req, resp |-> resp, called |-> fn, msg |-> msg]

(* ----------------------------- tab switching --------------------------- *)
\* tab.dataset.mode of the three mode tabs
Modes == {"upload", "record", "system"}

\* mode tab click: the tab and its panel become the only active ones
TabClick(mode) ==
    /\ events < MaxEvents
    /\ events' = events + 1
    /\ activeMode' = mode
    /\ UNCHANGED <<healthVars, fileVars, uploadsPending, button, sysVars, btnSystemText,
                   systemPending, resultVars, toastVars, last, recVars>>

(* ---------------------------- health monitor --------------------------- *)
\* setInterval(checkHealth, 15000) fires: checkHealth runs up to its await
HealthInterval ==
    /\ healthPending < MaxPolls
    /\ healthPending' = healthPending + 1
    /\ UNCHANGED <<statusOnline, statusText, lastPoll>>
    /\ UNCHANGED <<events, activeMode, fileVars, uploadsPending, button, sysVars, btnSystemText,
                   systemPending, resultVars, toastVars, last, recVars>>

\* the rest of checkHealth once its fetch settles
checkHealth(outcome) ==
    /\ healthPending > 0
    /\ healthPending' = healthPending - 1
    /\ lastPoll' = outcome
    /\ IF outcome = "network"
       THEN statusOnline' = FALSE /\ statusText' = "Offline"
       ELSE IF outcome = "ok"
            THEN statusOnline' = TRUE /\ statusText' = "Online"
            ELSE UNCHANGED <<statusOnline, statusText>>
    /\ UNCHANGED <<events, activeMode, fileVars, uploadsPending, button, sysVars, btnSystemText,
                   systemPending, resultVars, toastVars, last, recVars>>

HealthNext == HealthInterval \/ \E o \in {"ok", "http", "network"} : checkHealth(o)

(* ------------------------------ error toast ---------------------------- *)
\* time passes by one tick; a timeout that is due fires before time moves on
Tick ==
    /\ timers # <<>>
    /\ \A i \in 1..Len(timers) : timers[i] > 0
    /\ timers' = [i \in 1..Len(timers) |-> timers[i] - 1]
    /\ UNCHANGED <<errorMessageText, errorToastDisplay>>
    /\ UNCHANGED <<events, activeMode, healthVars, fileVars, uploadsPending, button, sysVars,
                   btnSystemText, systemPending, resultVars, last, recVars>>

\* the setTimeout callback of showError
ToastTimeout ==
    /\ timers # <<>>
    /\ timers[1] = 0
    /\ timers' = Tail(timers)
    /\ errorToastDisplay' = "none"
    /\ UNCHANGED errorMessageText
    /\ UNCHANGED <<events, activeMode, healthVars, fileVars, uploadsPending, button, sysVars,
                   btnSystemText, systemPending, resultVars, last, recVars>>

\* errorClose click
ErrorCloseClick ==
    /\ events < MaxEvents
    /\ events' = events + 1
    /\ UNCHANGED activeMode
    /\ errorToastDisplay = "flex"
    /\ errorToastDisplay' = "none"
    /\ UNCHANGED <<errorMessageText, timers>>
    /\ UNCHANGED <<healthVars, fileVars, uploadsPending, button, sysVars,
                   btnSystemText, systemPending, resultVars, last, recVars>>

ToastNext == Tick \/ ToastTimeout \/ ErrorCloseClick

(* ------------------------------ file upload ---------------------------- *)
\* handleFile without its last statement, btnPredict.disabled = false
handleFileNoEnable(file) ==
    /\ selectedFile' = file
    /\ fileNameText' = FileName(file)
    /\ fileSizeText' = formatBytes(FileSize(file))
    /\ fileInfoDisplay' = "flex"
    /\ dropZoneDisplay' = "none"
    /\ UNCHANGED button

\* handleFile(file)
handleFile(file) ==
    /\ selectedFile' = file
    /\ fileNameText' = FileName(file)
    /\ fileSizeText' = formatBytes(FileSize(file))
    /\ fileInfoDisplay' = "flex"
    /\ dropZoneDisplay' = "none"
    /\ button' = [button EXCEPT !.btnPredict.disabled = FALSE]

\* fileInput change: the user picked a file other than the one the input holds
FileInputChange(file) ==
    /\ events < MaxEvents
    /\ events' = events + 1
    /\ UNCHANGED activeMode
    /\ fileInputFile # file
    /\ fileInputFile' = file
    /\ handleFile(file)
    /\ UNCHANGED <<healthVars, uploadsPending, sysVars, btnSystemText, systemPending,
                   resultVars, toastVars, last, recVars>>

\* dropZone drop with a file; the drop zone takes events only while displayed
DropZoneDrop(file) ==
    /\ events < MaxEvents
    /\ events' = events + 1
    /\ UNCHANGED activeMode
    /\ dropZoneDisplay # "none"
    /\ handleFile(file)
    /\ UNCHANGED fileInputFile
    /\ UNCHANGED <<healthVars, uploadsPending, sysVars, btnSystemText, systemPending,
                   resultVars, toastVars, last, recVars>>

\* a fileRemove click that leaves the submit button enabled
FileRemoveClickEnables ==
    /\ events < MaxEvents
    /\ events' = events + 1
    /\ UNCHANGED activeMode
    /\ selectedFile' = Null
    /\ fileInputFile' = Null
    /\ fileInfoDisplay' = "none"
    /\ dropZoneDisplay' = "block"
    /\ button' = [button EXCEPT !.btnPredict.disabled = FALSE]
    /\ UNCHANGED <<fileNameText, fileSizeText>>
    /\ UNCHANGED <<healthVars, uploadsPending, sysVars, btnSystemText, systemPending,
                   resultVars, toastVars, last, recVars>>

\* fileRemove click
FileRemoveClick ==
    /\ events < MaxEvents
    /\ events' = events + 1
    /\ UNCHANGED activeMode
    /\ selectedFile' = Null
    /\ fileInputFile' = Null
    /\ fileInfoDisplay' = "none"
    /\ dropZoneDisplay' = "block"
    /\ button' = [button EXCEPT !.btnPredict.disabled = TRUE]
    /\ UNCHANGED <<fileNameText, fileSizeText>>
    /\ UNCHANGED <<healthVars, uploadsPending, sysVars, btnSystemText, systemPending,
                   resultVars, toastVars, last, recVars>>

\* btnPredict click, up to the await of fetch; a disabled button takes no click
BtnPredictClick ==
    /\ events < MaxEvents
    /\ events' = events + 1
    /\ UNCHANGED activeMode
    /\ ~button.btnPredict.disabled
    /\ IF selectedFile = Null
       THEN UNCHANGED <<button, uploadsPending>>
       ELSE /\ uploadsPending < MaxUploads
            /\ setLoading("btnPredict", TRUE)
            /\ uploadsPending' = uploadsPending + 1
    /\ UNCHANGED <<healthVars, fileVars, sysVars, btnSystemText, systemPending,
                   resultVars, toastVars, last, recVars>>

\* the rest of the btnPredict handler once fetch and res.json() settle
PredictResponse(resp) ==
    /\ uploadsPending > 0
    /\ uploadsPending' = uploadsPending - 1
    /\ IF ~JsonOk(resp)
       THEN LET msg == "Could not reach the server. Is it running?" IN
            /\ showError(msg)
            /\ last' = Completed("/predict", resp, "showError", msg)
            /\ UNCHANGED resultVars
       ELSE IF ResOk(resp)
            THEN /\ showResults(resp.body)
                 /\ last' = Completed("/predict", resp, "showResults", "")
                 /\ UNCHANGED toastVars
            ELSE LET msg == ErrorOr(resp.body, "Prediction failed") IN
                 /\ showError(msg)
                 /\ last' = Completed("/predict", resp, "showError", msg)
                 /\ UNCHANGED resultVars
    /\ setLoading("btnPredict", FALSE)
    /\ UNCHANGED <<events, activeMode, healthVars, fileVars, sysVars, btnSystemText, systemPending,
                   recVars>>

FileNext ==
    \/ \E f \in Files : FileInputChange(f)
    \/ \E f \in Files : DropZoneDrop(f)
    \/ FileRemoveClick
    \/ BtnPredictClick
    \/ \E r \in Responses : PredictResponse(r)

(* ------------------------------ system audio --------------------------- *)
\* durationSlider input
DurationInput(v) ==
    /\ events < MaxEvents
    /\ events' = events + 1
    /\ UNCHANGED activeMode
    /\ durationSlider # v
    /\ durationSlider' = v
    /\ durationValueText' = <<v, "s">>
    /\ UNCHANGED <<healthVars, fileVars, uploadsPending, button, btnSystemText,
                   systemPending, resultVars, toastVars, last, recVars>>

\* btnSystem click, up to the await of fetch
BtnSystemClick ==
    /\ events < MaxEvents
    /\ events' = events + 1
    /\ UNCHANGED activeMode
    /\ ~button.btnSystem.disabled
    /\ setLoading("btnSystem", TRUE)
    /\ btnSystemText' = <<"Listening for ", durationSlider, "s...">>
    /\ systemPending' = systemPending + 1
    /\ UNCHANGED <<healthVars, fileVars, uploadsPending, sysVars, resultVars, toastVars,
                   last, recVars>>

\* the rest of the btnSystem handler once fetch and res.json() settle
SystemResponse(resp) ==
    /\ systemPending > 0
    /\ systemPending' = systemPending - 1
    /\ IF ~JsonOk(resp)
       THEN LET msg == "Could not reach the server. Is it running?" IN
            /\ showError(msg)
            /\ last' = Completed("/predict/system", resp, "showError", msg)
            /\ UNCHANGED resultVars
       ELSE IF ResOk(resp)
            THEN /\ showResults(resp.body)
                 /\ last' = Completed("/predict/system", resp, "showResults", "")
                 /\ UNCHANGED toastVars
            ELSE LET msg == ErrorOr(resp.body, "System audio capture failed") IN
                 /\ showError(msg)
                 /\ last' = Completed("/predict/system", resp, "showError", msg)
                 /\ UNCHANGED resultVars
    /\ setLoading("btnSystem", FALSE)
    /\ btnSystemText' = StartListening
    /\ UNCHANGED <<events, activeMode, healthVars, fileVars, uploadsPending, sysVars, recVars>>

SystemNext ==
    \/ \E v \in Durations : DurationInput(v)
    \/ BtnSystemClick
    \/ \E r \in Responses : SystemResponse(r)

(* --------------------------- microphone recording ---------------------- *)
MicDenied == "Microphone access denied. Please allow microphone access."

\* the sequence without the entries equal to x
Without(seq, x) == SelectSeq(seq, LAMBDA y : y # x)

\* btnRecord click: stopRecording() when the current recorder is recording, else
\* startRecording() up to its await of getUserMedia
BtnRecordClick ==
    /\ events < MaxEvents
    /\ events' = events + 1
    /\ UNCHANGED activeMode
    /\ IF mediaRecorder # Null /\ recorderState[mediaRecorder] = "recording"
       THEN \* stopRecording(): mediaRecorder.stop() queues the dataavailable and stop events
            /\ recorderState' = [recorderState EXCEPT ![mediaRecorder] = "inactive"]
            /\ onstop' = [onstop EXCEPT ![mediaRecorder] = "queued"]
            /\ UNCHANGED <<nextSession, startState>>
       ELSE /\ nextSession < MaxSessions
            /\ nextSession' = nextSession + 1
            /\ startState' = [startState EXCEPT ![nextSession + 1] = "awaitingMic"]
            /\ UNCHANGED <<recorderState, onstop>>
    /\ UNCHANGED <<trackState, contextState, trackStopCalls, contextCloseCalls, stoppedBy,
                   closedBy, intervals, frames, recGlobals, recDom>>
    /\ UNCHANGED <<healthVars, fileVars, uploadsPending, button, sysVars, btnSystemText,
                   systemPending, resultVars, toastVars, last>>

\* the rest of startRecording call s once getUserMedia settles.  outcome: the
\* permission is denied; or the stream is acquired and then MediaRecorder.start()
\* throws, the AudioContext constructor in startWaveform throws, or nothing throws
startRecording(s, outcome) ==
    LET acquired == outcome # "denied"
        started == outcome \in {"ok", "waveformThrows"}
        drawn == outcome = "ok"
    IN
    /\ startState[s] = "awaitingMic"
    /\ startState' = [startState EXCEPT ![s] =
           CASE outcome = "denied" -> "denied"
             [] outcome = "startThrows" -> "startThrew"
             [] outcome = "waveformThrows" -> "waveformThrew"
             [] OTHER -> "started"]
    /\ IF acquired
       THEN /\ audioStream' = s
            /\ trackState' = [trackState EXCEPT ![s] = "live"]
            /\ mediaRecorder' = s
            /\ audioChunks' = <<>>
       ELSE UNCHANGED <<audioStream, trackState, mediaRecorder, audioChunks>>
    /\ recorderState' = [recorderState EXCEPT ![s] =
           IF started THEN "recording" ELSE IF acquired THEN "inactive" ELSE @]
    /\ IF started
       THEN /\ btnRecordRecording' = TRUE
            /\ recordLabelText' = "Recording... click to stop"
            /\ recordSeconds' = 0
            /\ timerText' = <<0, 0>>
            /\ recordTimerDisplay' = "flex"
            /\ recordingTimer' = s
            /\ intervals' = intervals \cup {s}
       ELSE UNCHANGED <<btnRecordRecording, recordLabelText, recordSeconds, timerText,
                        recordTimerDisplay, recordingTimer, intervals>>
    /\ IF drawn
       THEN \* startWaveform(audioStream)
            /\ audioContext' = s
            /\ contextState' = [contextState EXCEPT ![s] = "running"]
            /\ analyser' = s
            /\ waveCanvasDisplay' = "block"
            /\ animFrameId' = s
            /\ frames' = Append(frames, s)
       ELSE UNCHANGED <<audioContext, contextState, analyser, waveCanvasDisplay,
                        animFrameId, frames>>
    /\ IF outcome = "ok" THEN UNCHANGED toastVars ELSE showError(MicDenied)
    /\ UNCHANGED <<nextSession, onstop, trackStopCalls, contextCloseCalls, stoppedBy, closedBy>>
    /\ UNCHANGED <<events, activeMode, healthVars, fileVars, uploadsPending, button, sysVars,
                   btnSystemText, systemPending, resultVars, last>>

\* the setInterval callback of recording s
RecordingTimerTick(s) ==
    /\ s \in intervals
    /\ recordSeconds < MaxSeconds
    /\ recordSeconds' = recordSeconds + 1
    /\ timerText' = <<(recordSeconds + 1) \div 60, (recordSeconds + 1) % 60>>
    /\ UNCHANGED <<mediaRecorder, audioChunks, recordingTimer, audioStream, audioContext,
                   analyser, animFrameId, btnRecordRecording, recordLabelText,
                   recordTimerDisplay, waveCanvasDisplay, recObjects>>
    /\ UNCHANGED <<events, activeMode, healthVars, fileVars, uploadsPending, button, sysVars,
                   btnSystemText, systemPending, resultVars, toastVars, last>>

\* the rows after the callbacks cbs ran in order
RECURSIVE RunCallbacks(_, _)
RunCallbacks(rows, cbs) ==
    IF cbs = <<>> THEN rows ELSE RunCallbacks(BarCallbacks(rows, Head(cbs)), Tail(cbs))
InnerFrame(cb) == cb.stage = 2
OuterFrame(cb) == cb.stage = 1

\* one animation frame: every pending callback runs, in registration order; each draw
\* callback registers itself again, each outer bar callback registers its inner
\* callback, each inner bar callback sets the widths of its rows
AnimationFrame ==
    /\ frames # <<>> \/ barFrames # <<>>
    /\ animFrameId' = IF frames # <<>> THEN frames[Len(frames)] ELSE animFrameId
    /\ chartRows' = RunCallbacks(chartRows, SelectSeq(barFrames, InnerFrame))
    /\ barFrames' = LET outer == SelectSeq(barFrames, OuterFrame)
                    IN [j \in 1..Len(outer) |-> [outer[j] EXCEPT !.stage = 2]]
    /\ UNCHANGED <<mediaRecorder, audioChunks, recordingTimer, recordSeconds, audioStream,
                   audioContext, analyser, recDom, recObjects>>
    /\ UNCHANGED <<events, activeMode, healthVars, fileVars, uploadsPending, button, sysVars,
                   btnSystemText, systemPending, resultsDisplay, genreEmojiText, genreNameText,
                   confidenceText, ringOffset, ringGradient, shown, toastVars, last>>

\* recorder s stops without stop() being called (a recorder error, or its tracks ended)
RecorderStopsItself(s) ==
    /\ recorderState[s] = "recording"
    /\ recorderState' = [recorderState EXCEPT ![s] = "inactive"]
    /\ onstop' = [onstop EXCEPT ![s] = "queued"]
    /\ UNCHANGED <<nextSession, startState, trackState, contextState, trackStopCalls,
                   contextCloseCalls, stoppedBy, closedBy, intervals, frames, recGlobals,
                   recDom>>
    /\ UNCHANGED <<events, activeMode, healthVars, fileVars, uploadsPending, button, sysVars,
                   btnSystemText, systemPending, resultVars, toastVars, last>>

\* recorder s fires dataavailable and stop: ondataavailable, then onstop up to
\* its await of blob.arrayBuffer()
RecorderStopEvent(s, hasData) ==
    /\ onstop[s] = "queued"
    /\ audioChunks' = IF hasData THEN Append(audioChunks, s) ELSE audioChunks
    /\ intervals' = intervals \ {recordingTimer}
    /\ frames' = Without(frames, animFrameId)
    /\ waveCanvasDisplay' = "none"
    /\ recordTimerDisplay' = "none"
    /\ btnRecordRecording' = FALSE
    /\ recordLabelText' = "Processing..."
    /\ onstop' = [onstop EXCEPT ![s] = "awaitBuffer"]
    /\ UNCHANGED <<mediaRecorder, recordingTimer, recordSeconds, audioStream, audioContext,
                   analyser, animFrameId, timerText>>
    /\ UNCHANGED <<nextSession, startState, trackState, recorderState, contextState,
                   trackStopCalls, contextCloseCalls, stoppedBy, closedBy>>
    /\ UNCHANGED <<events, activeMode, healthVars, fileVars, uploadsPending, button, sysVars,
                   btnSystemText, systemPending, resultVars, toastVars, last>>

\* blob.arrayBuffer() of onstop s settles: the fetch is issued, or the rejection
\* ends the handler
BufferSettled(s, resolved) ==
    /\ onstop[s] = "awaitBuffer"
    /\ onstop' = [onstop EXCEPT ![s] = IF resolved THEN "awaitFetch" ELSE "threw"]
    /\ UNCHANGED <<nextSession, startState, trackState, recorderState, contextState,
                   trackStopCalls, contextCloseCalls, stoppedBy, closedBy, intervals, frames,
                   recGlobals, recDom>>
    /\ UNCHANGED <<events, activeMode, healthVars, fileVars, uploadsPending, button, sysVars,
                   btnSystemText, systemPending, resultVars, toastVars, last>>

\* cleanupAudio(), called by the stop handler of recording `caller`
cleanupAudio(caller) ==
    /\ IF audioStream # Null
       THEN /\ trackState' = [trackState EXCEPT ![audioStream] = "ended"]
            /\ trackStopCalls' = [trackStopCalls EXCEPT ![audioStream] = @ + 1]
            /\ stoppedBy' = [stoppedBy EXCEPT ![audioStream] = caller]
       ELSE UNCHANGED <<trackState, trackStopCalls, stoppedBy>>
    /\ audioStream' = Null
    /\ IF audioContext # Null
       THEN /\ contextState' = [contextState EXCEPT ![audioContext] = "closed"]
            /\ contextCloseCalls' = [contextCloseCalls EXCEPT ![audioContext] = @ + 1]
            /\ closedBy' = [closedBy EXCEPT ![audioContext] = caller]
       ELSE UNCHANGED <<contextState, contextCloseCalls, closedBy>>
    /\ audioContext' = Null

\* the rest of onstop s once fetch and res.json() settle
RecordResponse(s, resp) ==
    /\ onstop[s] = "awaitFetch"
    /\ onstop' = [onstop EXCEPT ![s] = "done"]
    /\ IF ~JsonOk(resp)
       THEN LET msg == "Could not reach the server." IN
            /\ showError(msg)
            /\ last' = Completed("/predict/record", resp, "showError", msg)
            /\ UNCHANGED resultVars
       ELSE IF ResOk(resp)
            THEN /\ showResults(resp.body)
                 /\ last' = Completed("/predict/record", resp, "showResults", "")
                 /\ UNCHANGED toastVars
            ELSE LET msg == ErrorOr(resp.body, "Prediction failed") IN
                 /\ showError(msg)
                 /\ last' = Completed("/predict/record", resp, "showError", msg)
                 /\ UNCHANGED resultVars
    /\ recordLabelText' = "Click to start recording"
    /\ cleanupAudio(s)
    /\ UNCHANGED <<mediaRecorder, audioChunks, recordingTimer, recordSeconds, analyser,
                   animFrameId, btnRecordRecording, recordTimerDisplay, timerText,
                   waveCanvasDisplay>>
    /\ UNCHANGED <<nextSession, startState, recorderState, intervals, frames>>
    /\ UNCHANGED <<events, activeMode, healthVars, fileVars, uploadsPending, button, sysVars,
                   btnSystemText, systemPending>>

StartOutcomes == {"denied", "ok", "startThrows", "waveformThrows"}

RecordNext ==
    \/ BtnRecordClick
    \/ \E s \in Sessions, o \in StartOutcomes : startRecording(s, o)
    \/ \E s \in Sessions : RecordingTimerTick(s)
    \/ AnimationFrame
    \/ \E s \in Sessions : RecorderStopsItself(s)
    \/ \E s \in Sessions, d \in BOOLEAN : RecorderStopEvent(s, d)
    \/ \E s \in Sessions, r \in BOOLEAN : BufferSettled(s, r)
    \/ \E s \in Sessions, r \in Responses : RecordResponse(s, r)

(* ---------------------------- specifications --------------------------- *)
Next == HealthNext \/ ToastNext \/ FileNext \/ SystemNext \/ RecordNext
Spec == Init /\ [][Next]_vars

\* the microphone panel with the toast
NextRecord == RecordNext \/ ToastNext
SpecRecord == Init /\ [][NextRecord]_vars

\* the upload and system-audio panels, the health badge and the toast
NextPage == HealthNext \/ FileNext \/ SystemNext \/ ToastNext
SpecPage == Init /\ [][NextPage]_vars

\* the upload and system-audio panels with the toast
NextPanels == FileNext \/ SystemNext \/ ToastNext
SpecPanels == Init /\ [][NextPanels]_vars

\* the three prediction requests, each from its click to its completed response;
\* every recording gets its microphone and its payload, so that it issues its request
NextPredict ==
    \/ \E f \in Files : FileInputChange(f)
    \/ BtnPredictClick
    \/ \E r \in Responses : PredictResponse(r)
    \/ BtnSystemClick
    \/ \E r \in Responses : SystemResponse(r)
    \/ BtnRecordClick
    \/ \E s \in Sessions : startRecording(s, "ok")
    \/ \E s \in Sessions : RecorderStopEvent(s, TRUE)
    \/ \E s \in Sessions : BufferSettled(s, TRUE)
    \/ \E s \in Sessions, r \in Responses : RecordResponse(s, r)
    \/ ToastNext
SpecPredict == Init /\ [][NextPredict]_vars

\* the three panels behind their tabs: the user reaches the controls of the active
\* panel only; every recording gets its microphone and its payload
NextModes ==
    \/ \E m \in Modes : TabClick(m)
    \/ activeMode = "upload" /\ \E f \in Files : FileInputChange(f)
    \/ activeMode = "upload" /\ FileRemoveClick
    \/ activeMode = "upload" /\ BtnPredictClick
    \/ \E r \in Responses : PredictResponse(r)
    \/ activeMode = "system" /\ BtnSystemClick
    \/ \E r \in Responses : SystemResponse(r)
    \/ activeMode = "record" /\ BtnRecordClick
    \/ \E s \in Sessions : startRecording(s, "ok")
    \/ \E s \in Sessions : RecorderStopEvent(s, TRUE)
    \/ \E s \in Sessions : BufferSettled(s, TRUE)
    \/ \E s \in Sessions, r \in Responses : RecordResponse(s, r)
    \/ ToastNext
SpecModes == Init /\ [][NextModes]_vars

\* the results area: uploads whose results vary, and the animation frames
NextResults ==
    \/ \E f \in Files : FileInputChange(f)
    \/ BtnPredictClick
    \/ \E r \in ResultResponses : PredictResponse(r)
    \/ AnimationFrame
SpecResults == Init /\ [][NextResults]_vars

(* -------------------------------- claims ------------------------------- *)
LiveStreams == {s \in Sessions : trackState[s] = "live"}

\* C1: at most one acquired stream with live tracks exists at any time, whatever
\* the sequence of record-button clicks.
C1_AtMostOneLiveStream == Cardinality(LiveStreams) <= 1

\* C2: once the stop handler of a recording has run to completion, the tracks of
\* that recording's stream have been stopped exactly once and the AudioContext
\* created for it has been closed exactly once.
C2_ReleasedExactlyOnce ==
    \A s \in Sessions :
        onstop[s] = "done" =>
            /\ trackState[s] # "none" => trackStopCalls[s] = 1
            /\ contextState[s] # "none" => contextCloseCalls[s] = 1

\* recording s is over: its setup threw before the recorder started, or the stop
\* handler of its recorder has run to its end or thrown
Exited(s) ==
    \/ startState[s] = "startThrew"
    \/ onstop[s] \in {"done", "threw"}

\* C3: on every exit path of a recording after its stream was acquired (a setup
\* error in startRecording, the end of the stop handler, an error in the stop
\* handler) the stream's tracks are stopped and the AudioContext is closed.
C3_ReleasedOnEveryExit ==
    \A s \in Sessions :
        Exited(s) => trackState[s] # "live" /\ contextState[s] # "running"

\* a prediction request that failed: the fetch rejected or the status is not 2xx
Failed(resp) == resp.fetch = "rejects" \/ ~resp.ok

\* C4: a prediction request (file, record or system) that fails with a network
\* error or a non-success status has showError called with a message and never
\* showResults; showResults is called only for a successful response.
C4_FailureShowsError ==
    last.req # "none" =>
        /\ Failed(last.resp) => last.called = "showError" /\ last.msg # ""
        /\ last.called = "showResults" => ~Failed(last.resp)

\* a recorded-audio request met a network error and its message is on display
C4_Witness ==
    /\ last.req = "/predict/record"
    /\ last.resp.fetch = "rejects"
    /\ last.called = "showError"
    /\ errorToastDisplay = "flex"
    /\ errorMessageText = last.msg

\* C5: after every completed health poll the badge reflects that poll: online
\* after a 2xx response, offline after a network error or a non-success response.
C5_BadgeReflectsPoll ==
    /\ lastPoll = "ok" => statusOnline
    /\ lastPoll \in {"http", "network"} => ~statusOnline

\* C6: in every reachable state, selecting a file (pick or drop) leaves the submit
\* button enabled with that file selected, and removing the file leaves the
\* button disabled, no file selected, the file info hidden and the drop zone shown.
C6_SelectEnablesRemoveResets ==
    [][/\ \A f \in Files :
              FileInputChange(f) \/ DropZoneDrop(f) =>
                  ~button'.btnPredict.disabled /\ selectedFile' = f
       /\ FileRemoveClick =>
              /\ button'.btnPredict.disabled
              /\ selectedFile' = Null
              /\ fileInfoDisplay' = "none"
              /\ dropZoneDisplay' = "block"]_vars

\* a file was selected while an upload is in flight, and the button is enabled
C6_Witness ==
    /\ uploadsPending > 0
    /\ selectedFile # Null
    /\ fileInfoDisplay = "flex"
    /\ ~button.btnPredict.disabled

\* C7: the system-audio button is disabled exactly while a /predict/system request
\* is in flight, so at most one is in flight; when a request has completed, with
\* any outcome, the button is enabled again and carries its idle label.
C7_SystemDisabledWhileInFlight ==
    /\ systemPending \in {0, 1}
    /\ button.btnSystem.disabled <=> systemPending = 1
    /\ button.btnSystem.loading <=> systemPending = 1
    /\ systemPending = 1 => btnSystemText[1] = "Listening for "
    /\ systemPending = 0 => btnSystemText[1] \in {Markup, "Start Listening"}
    /\ last.req = "/predict/system" /\ systemPending = 0 => btnSystemText = StartListening

\* a system-capture request has failed and the button is ready again
C7_Witness ==
    /\ last.req = "/predict/system"
    /\ Failed(last.resp)
    /\ systemPending = 0
    /\ ~button.btnSystem.disabled
    /\ btnSystemText = StartListening

\* C8: the toast showing a message is hidden only by a dismiss click or when the
\* delay counted from that message's showError call has elapsed: the timeout that
\* hides it is never one started for an earlier message while the delay of the
\* message on display (the timeout started last) is still running.
C8_HiddenOnlyAfterOwnDelay ==
    [][errorToastDisplay = "flex" /\ errorToastDisplay' = "none" =>
           \/ ErrorCloseClick
           \/ timers # <<>> /\ timers[Len(timers)] = 0]_vars

\* C9: there is no state in which the stop handler of a recording waits for the
\* response to /predict/record while that recording's tracks are live or its
\* AudioContext is open: both are released before the request is issued.
C9_ReleasedBeforeRequest ==
    \A s \in Sessions :
        onstop[s] = "awaitFetch" => trackState[s] # "live" /\ contextState[s] # "running"

\* C10: the stop handler of one recording never stops the tracks or closes the
\* AudioContext of another recording that is recording at that time.
C10_NoForeignRelease ==
    \A s \in Sessions :
        recorderState[s] = "recording" =>
            stoppedBy[s] \in {Null, s} /\ closedBy[s] \in {Null, s}

\* transient state of the three input modes
FileTransient == selectedFile # Null
MicTransient ==
    \E s \in Sessions :
        \/ startState[s] = "awaitingMic"
        \/ recorderState[s] = "recording"
        \/ onstop[s] \in {"queued", "awaitBuffer", "awaitFetch"}
SystemTransient == systemPending > 0

\* C11: in every reachable state at most one input mode holds transient state: a
\* selected file, a recording session or its pending payload, and an in-flight
\* system-capture request never coexist.
C11_OneModeTransient ==
    /\ ~(FileTransient /\ MicTransient)
    /\ ~(FileTransient /\ SystemTransient)
    /\ ~(MicTransient /\ SystemTransient)

\* the record control is ready: idle label, no recorder recording
RecordReady ==
    /\ recordLabelText \in {Markup, "Click to start recording"}
    /\ \A s \in Sessions : recorderState[s] # "recording"

C16_EnabledImpliesFile == ~button.btnPredict.disabled => selectedFile # Null

\* C17 as stated: at most one POST /predict request is in flight, and the submit
\* button is disabled while one is, whatever is selected or removed meanwhile.
C17_OneUploadInFlight ==
    /\ uploadsPending <= 1
    /\ uploadsPending > 0 => button.btnPredict.disabled

\* C17 as amended: a submit click that starts a request disables the button, and
\* while a request is in flight only a file selection (pick or drop) or the
\* completion of a request enables it again; removing the file does not.
C17_EnabledOnlyBySelectOrCompletion ==
    [][/\ uploadsPending' > uploadsPending =>
              button'.btnPredict.disabled /\ button'.btnPredict.loading
       /\ uploadsPending > 0 /\ button.btnPredict.disabled /\ ~button'.btnPredict.disabled =>
              \/ \E f \in Files : FileInputChange(f) \/ DropZoneDrop(f)
              \/ \E r \in Responses : PredictResponse(r)]_vars

\* two uploads in flight: the second click came after a selection during the first
C17_Witness == uploadsPending = 2 /\ button.btnPredict.disabled

\* C18: the recording indicator matches the recorder; in particular, while the
\* current recorder is recording, no stop handler of an earlier recording has
\* put the label back to 'Click to start recording'.
C18_LabelNotResetWhileRecording ==
    mediaRecorder # Null /\ recorderState[mediaRecorder] = "recording" =>
        recordLabelText # "Click to start recording"

\* the sessions with a pending draw callback
Loops == {frames[i] : i \in 1..Len(frames)}

\* C19: at most one recording interval timer and one waveform animation loop are
\* active at any time, and the stop handler of a recording has cancelled the
\* timer and the loop that recording started.
C19_OneTimerOneLoop ==
    /\ Cardinality(intervals) <= 1
    /\ Len(frames) <= 1
    /\ \A s \in Sessions : onstop[s] = "done" => s \notin intervals /\ s \notin Loops

\* a bar-width callback of the last showResults call is still pending
BarsPending == \E j \in 1..Len(barFrames) : barFrames[j].attached
\* what the results area displays for data once its bars have their width (settled)
\* or before
Rendered(data, settled) ==
    [glyph |-> Emoji(data.genre), name |-> data.genre, percentage |-> <<pct(data)>>,
     ring |-> <<offset(data)>>,
     rows |-> [i \in 1..Len(topGenres(data)) |->
                  [ChartRow(topGenres(data)[i], i) EXCEPT
                      !.width = IF settled THEN barPct(topGenres(data)[i], data) ELSE 0]]]
Displayed ==
    [glyph |-> genreEmojiText, name |-> genreNameText, percentage |-> confidenceText,
     ring |-> ringOffset, rows |-> chartRows]

\* C13: after showResults(d) every displayed field (glyph, genre name, percentage,
\* ring offset, chart rows and, once the bars are animated, their widths) is
\* determined by d alone, whatever was displayed before, whether or not d has
\* top_genres, and whatever bar-width callbacks of earlier calls are pending; so
\* a second call with the same d, or an earlier call with another d, changes nothing.
C13_DisplayDeterminedByData ==
    resultsDisplay = "block" => ringGradient /\ Displayed = Rendered(shown, ~BarsPending)
\* a result without top_genres is displayed while a callback of an earlier call is pending
C13_Witness ==
    /\ resultsDisplay = "block"
    /\ "top_genres" \notin shown.keys
    /\ barFrames # <<>>
    /\ chartRows = <<>>

\* the results area shows its bars at their final widths
Settled == resultsDisplay = "block" /\ ~BarsPending
Confidences(list) == {list[i].confidence : i \in 1..Len(list)}
Highest(list) == CHOOSE c \in Confidences(list) : \A d \in Confidences(list) : d <= c
Descending(list) == \A i \in 1..Len(list) - 1 : list[i].confidence >= list[i + 1].confidence
\* a width to the nearest tenth of a percent, in tenths
Tenths(width) == (width * 10 + WidthUnits \div 2) \div WidthUnits

\* C14: for any top_genres list there is one bar per entry in list order, each of
\* final width 100 * (entry confidence / highest confidence in the list) percent:
\* the entry with the highest confidence gets 100% and no bar exceeds 100%.
C14_WidthRelativeToHighest ==
    Settled =>
        LET list == topGenres(shown) IN
        /\ Len(chartRows) = Len(list)
        /\ \A i \in 1..Len(list) :
               /\ chartRows[i].label[2] = list[i].genre
               /\ Highest(list) > 0
               /\ chartRows[i].width = (list[i].confidence * 100 * WidthUnits) \div Highest(list)
               /\ chartRows[i].width <= 100 * WidthUnits
               /\ list[i].confidence = Highest(list) => chartRows[i].width = 100 * WidthUnits

\* C14 (amended): there is one bar per entry in list order, each of final width
\* 100 * (entry confidence / confidence of the first entry) percent, and 0% when
\* the first confidence is 0; for a list in descending order whose first
\* confidence is above 0 that is the width relative to the highest confidence, at
\* most 100%; for [{rock,0.6},{pop,0.3},{jazz,0.1}] the widths are 100%, 50%, 16.7%
\* to the nearest tenth.
C14_WidthRelativeToFirst ==
    Settled =>
        LET list == topGenres(shown) IN
        /\ Len(chartRows) = Len(list)
        /\ \A i \in 1..Len(list) :
               /\ chartRows[i].label[2] = list[i].genre
               /\ list[1].confidence = 0 => chartRows[i].width = 0
               /\ list[1].confidence > 0 =>
                      chartRows[i].width =
                          (list[i].confidence * 100 * WidthUnits) \div list[1].confidence
               /\ Descending(list) /\ list[1].confidence > 0 =>
                      /\ chartRows[i].width =
                             (list[i].confidence * 100 * WidthUnits) \div Highest(list)
                      /\ chartRows[i].width <= 100 * WidthUnits
                      /\ list[i].confidence = Highest(list) =>
                             chartRows[i].width = 100 * WidthUnits
        /\ list = Ranked =>
               [i \in 1..3 |-> Tenths(chartRows[i].width)] = <<1000, 500, 167>>
C14_Witness ==
    /\ Settled
    /\ topGenres(shown) = Ranked
    /\ [i \in 1..3 |-> chartRows[i].width] = <<100000, 50000, 16666>>

\* C15: for a result of confidence c in [0,1] the ring offset is
\* circumference * (1 - c) with circumference 2 * pi * 52, so between 0 and the
\* circumference, and the displayed percentage is the integer nearest to c * 100;
\* c = 0.87 displays 87.
C15_RingAndPercentage ==
    resultsDisplay = "block" =>
        LET c == shown.confidence IN
        /\ ringOffset = <<(2 * Pi * 52 * (One - c)) \div One>>
        /\ 0 <= ringOffset[1] /\ ringOffset[1] <= 2 * Pi * 52
        /\ c = 0 => ringOffset[1] = 2 * Pi * 52
        /\ c = One => ringOffset[1] = 0
        /\ \E n \in 0..100 :
               /\ confidenceText = <<n>>
               /\ 10 * n - 5 <= c /\ c <= 10 * n + 5
        /\ c = 870 => confidenceText = <<87>>
C15_Witness ==
    /\ resultsDisplay = "block"
    /\ shown.confidence = 870
    /\ confidenceText = <<87>>
    /\ ringOffset = <<42479>>
====
